---------------------------- MODULE Spec2Model ----------------------------
(***************************************************************************)
(* A model of svgtoluapath.py: the batch driver (main, print_lua_path),    *)
(* the converter invocation (convert_to_html_file), the line-pattern       *)
(* extractor (convert_to_lua_path) with its five regular expressions, and  *)
(* the numeric cleanup (clean_num).                                        *)
(*                                                                         *)
(* Text that the regular expressions read (lines of the intermediate file, *)
(* captured numbers) is a sequence of one-character strings; text that is  *)
(* only printed (path tokens, output lines) is a string.  Input files are  *)
(* named by their stem; every input carries the suffix .svg (the argument  *)
(* is documented as "SVG icon file" and the default is a glob of *.svg), so*)
(* the intermediate file <stem>.html is never itself an input.             *)
(***************************************************************************)
EXTENDS Integers, Sequences, FiniteSets, TLC

\* Bounds of the model.
MaxFiles == 3
MaxLines == 3
MaxNumLen == 5

Stems == {"a", "b"}

Digits == {"0", "1", "2", "3", "4", "5", "6", "7", "8", "9"}

\* What str.strip() removes (the whitespace that occurs in the modelled lines).
Whitespace == {" ", "\t"}

(***************************************************************************)
(* The literal parts of the five patterns.                                 *)
(***************************************************************************)
\* <canvas id='canvas' width='
CANVAS_OPEN ==
    <<"<", "c", "a", "n", "v", "a", "s", " ", "i", "d", "=", "'", "c", "a",
      "n", "v", "a", "s", "'", " ", "w", "i", "d", "t", "h", "=", "'">>

\* ' height='
CANVAS_MID ==
    <<"'", " ", "h", "e", "i", "g", "h", "t", "=", "'">>

\* '></canvas>
CANVAS_CLOSE ==
    <<"'", ">", "<", "/", "c", "a", "n", "v", "a", "s", ">">>

\* ctx.transform(
TRANSFORM_OPEN ==
    <<"c", "t", "x", ".", "t", "r", "a", "n", "s", "f", "o", "r", "m", "(">>

\* ctx.moveTo(
MOVE_TO_OPEN ==
    <<"c", "t", "x", ".", "m", "o", "v", "e", "T", "o", "(">>

\* ctx.lineTo(
LINE_TO_OPEN ==
    <<"c", "t", "x", ".", "l", "i", "n", "e", "T", "o", "(">>

\* ctx.bezierCurveTo(
BEZIER_OPEN ==
    <<"c", "t", "x", ".", "b", "e", "z", "i", "e", "r", "C", "u", "r", "v",
      "e", "T", "o", "(">>

\* , 
SEP ==
    <<",", " ">>

\* );
CLOSE ==
    <<")", ";">>

(***************************************************************************)
(* Regular-expression matching.  A position is an index into the line; 0   *)
(* stands for "no match".  Every number group is followed by a literal     *)
(* that starts with a non-digit, non-dot character, so the greedy match    *)
(* computed here is the only match the regex engine can find.              *)
(***************************************************************************)
NoMatch == [matched |-> FALSE, groups |-> <<>>]

\* A literal at position pos: the position after it.
Lit(line, pos, lit) ==
    IF /\ pos # 0
       /\ pos + Len(lit) - 1 <= Len(line)
       /\ SubSeq(line, pos, pos + Len(lit) - 1) = lit
    THEN pos + Len(lit)
    ELSE 0

RECURSIVE DigitsEnd(_, _)
\* \d* at position pos: the position after the longest run of digits.
DigitsEnd(line, pos) ==
    IF pos <= Len(line) /\ line[pos] \in Digits
    THEN DigitsEnd(line, pos + 1)
    ELSE pos

\* -? at position pos.
SignEnd(line, pos) ==
    IF pos <= Len(line) /\ line[pos] = "-" THEN pos + 1 ELSE pos

\* N = (-?\d+\.?\d*), int or float: the position after the group.
N(line, pos) ==
    IF pos = 0 THEN 0
    ELSE LET s == SignEnd(line, pos)
             d == DigitsEnd(line, s)
         IN  IF d = s THEN 0
             ELSE IF d <= Len(line) /\ line[d] = "."
                  THEN DigitsEnd(line, d + 1)
                  ELSE d

\* Mutant of F: the int-or-float pattern where the float pattern belongs.
F_AcceptsInt(line, pos) == N(line, pos)

\* F = (-?\d+\.\d+), float: the position after the group.
F(line, pos) ==
    IF pos = 0 THEN 0
    ELSE LET s == SignEnd(line, pos)
             d == DigitsEnd(line, s)
             e == DigitsEnd(line, d + 1)
         IN  IF d = s THEN 0
             ELSE IF d <= Len(line) /\ line[d] = "." /\ e > d + 1
                  THEN e
                  ELSE 0

RECURSIVE FArgs(_, _, _)
\* {F}, {F}, ... (k groups) at position pos: <<position after, groups>>.
FArgs(line, pos, k) ==
    LET e == F(line, pos)
    IN  IF e = 0 THEN <<0, <<>>>>
        ELSE IF k = 1 THEN <<e, <<SubSeq(line, pos, e - 1)>>>>
        ELSE LET r == FArgs(line, Lit(line, e, SEP), k - 1)
             IN  IF r[1] = 0 THEN <<0, <<>>>>
                 ELSE <<r[1], <<SubSeq(line, pos, e - 1)>> \o r[2]>>

\* re.match of "<open>{F}, ..., {F}\);" with k groups.
DrawCall(line, open, k) ==
    LET r == FArgs(line, Lit(line, 1, open), k)
    IN  IF Lit(line, r[1], CLOSE) = 0 THEN NoMatch
        ELSE [matched |-> TRUE, groups |-> r[2]]

CANVAS(line) ==
    LET w == Lit(line, 1, CANVAS_OPEN)
        we == N(line, w)
        h == Lit(line, we, CANVAS_MID)
        he == N(line, h)
    IN  IF Lit(line, he, CANVAS_CLOSE) = 0 THEN NoMatch
        ELSE [matched |-> TRUE,
              groups |-> <<SubSeq(line, w, we - 1), SubSeq(line, h, he - 1)>>]

\* ctx\.transform\(.+ : the literal and at least one more character.
TRANSFORM(line) ==
    LET p == Lit(line, 1, TRANSFORM_OPEN)
    IN  [matched |-> p # 0 /\ p <= Len(line), groups |-> <<>>]

MOVE_TO(line) == DrawCall(line, MOVE_TO_OPEN, 2)

LINE_TO(line) == DrawCall(line, LINE_TO_OPEN, 2)

BEZIER_CURVE_TO(line) == DrawCall(line, BEZIER_OPEN, 6)

(***************************************************************************)
(* String helpers of the Python runtime.                                   *)
(***************************************************************************)
RECURSIVE rstrip(_, _)
\* str.rstrip(chars)
rstrip(s, chars) ==
    IF s # <<>> /\ s[Len(s)] \in chars
    THEN rstrip(SubSeq(s, 1, Len(s) - 1), chars)
    ELSE s

RECURSIVE lstrip(_, _)
lstrip(s, chars) ==
    IF s # <<>> /\ s[1] \in chars THEN lstrip(Tail(s), chars) ELSE s

\* str.strip()
strip(s) == rstrip(lstrip(s, Whitespace), Whitespace)

RECURSIVE Str(_)
\* The string made of the characters of s.
Str(s) == IF s = <<>> THEN "" ELSE Head(s) \o Str(Tail(s))

RECURSIVE join_NoSep(_, _)
\* Mutant of join: the separator is left out.
join_NoSep(sep, xs) ==
    IF xs = <<>> THEN "" ELSE xs[1] \o join_NoSep(sep, Tail(xs))

RECURSIVE join(_, _)
\* sep.join(xs)
join(sep, xs) ==
    IF xs = <<>> THEN ""
    ELSE IF Len(xs) = 1 THEN xs[1]
    ELSE xs[1] \o sep \o join(sep, Tail(xs))

clean_num(num) == rstrip(rstrip(num, {"0"}), {"."})

(***************************************************************************)
(* The body of the extractor's loop.                                       *)
(***************************************************************************)
\* [clean_num(n) for n in m.groups()]
Cleaned(groups) == [k \in DOMAIN groups |-> Str(clean_num(groups[k]))]

\* Mutant of CanvasPath: height and width swapped.
CanvasPath_Swapped(g) == "m 0 0 m " \o g[2] \o " " \o g[1]

\* f"m 0 0 m {width} {height}"
CanvasPath(g) == "m 0 0 m " \o g[1] \o " " \o g[2]

\* f"m {x} {y}"
MovePath(g) == "m " \o g[1] \o " " \o g[2]

\* f"l {x} {y}"
LinePath(g) == "l " \o g[1] \o " " \o g[2]

\* f"b {cp1x} {cp1y} {cp2x} {cp2y} {x} {y}"
BezierPath(g) ==
    "b " \o g[1] \o " " \o g[2] \o " " \o g[3] \o " " \o g[4]
         \o " " \o g[5] \o " " \o g[6]

\* The value of `path` for a stripped line, "" standing for None (both are
\* false in `if path`): after the CANVAS match, and at the end of the loop
\* body when TRANSFORM does not match.
CanvasPathOf(line) ==
    IF CANVAS(line).matched
    THEN CanvasPath(Cleaned(CANVAS(line).groups)) ELSE ""

PathOf(line) ==
    LET p1 == CanvasPathOf(line)
        p2 == IF MOVE_TO(line).matched
              THEN MovePath(Cleaned(MOVE_TO(line).groups)) ELSE p1
        p3 == IF LINE_TO(line).matched
              THEN LinePath(Cleaned(LINE_TO(line).groups)) ELSE p2
    IN  IF BEZIER_CURVE_TO(line).matched
        THEN BezierPath(Cleaned(BEZIER_CURVE_TO(line).groups)) ELSE p3

(***************************************************************************)
(* Output lines.                                                           *)
(***************************************************************************)
Header == "local icons = {"

Footer == "}"

\* rf'    {name} = "{{\\p1}}{lua_path}{{\\p0}}",'  (raw: both backslashes stay)
DataLine(name, lua_path) ==
    "    " \o name \o " = \"{\\\\p1}" \o lua_path \o "{\\\\p0}\","

SvgPath(stem) == stem \o ".svg"

\* svg_file.with_suffix(".html")
HtmlPath(stem) == stem \o ".html"

NoSuchFile(stem) == "Error: No such file: '" \o SvgPath(stem) \o "'"

CannotParse(stem) ==
    "Error: Cannot parse ctx.transform(): '" \o HtmlPath(stem) \o "'"

Ungroup == "Please ungroup path to remove transormation"

(***************************************************************************)
(* Lines the converter may write to the intermediate file.                 *)
(***************************************************************************)
\* <canvas id='canvas' width='24' height='24'></canvas>
L_canvas24 ==
    <<"<", "c", "a", "n", "v", "a", "s", " ", "i", "d", "=", "'", "c", "a",
      "n", "v", "a", "s", "'", " ", "w", "i", "d", "t", "h", "=", "'", "2",
      "4", "'", " ", "h", "e", "i", "g", "h", "t", "=", "'", "2", "4", "'",
      ">", "<", "/", "c", "a", "n", "v", "a", "s", ">">>

\* <canvas id='canvas' width='100' height='37.50'></canvas>
L_canvas100 ==
    <<"<", "c", "a", "n", "v", "a", "s", " ", "i", "d", "=", "'", "c", "a",
      "n", "v", "a", "s", "'", " ", "w", "i", "d", "t", "h", "=", "'", "1",
      "0", "0", "'", " ", "h", "e", "i", "g", "h", "t", "=", "'", "3", "7",
      ".", "5", "0", "'", ">", "<", "/", "c", "a", "n", "v", "a", "s", ">">>

\* ctx.moveTo(1.500, 2.000);
L_move ==
    <<"c", "t", "x", ".", "m", "o", "v", "e", "T", "o", "(", "1", ".", "5",
      "0", "0", ",", " ", "2", ".", "0", "0", "0", ")", ";">>

\* ctx.lineTo(3.250, 4.000);
L_line ==
    <<"c", "t", "x", ".", "l", "i", "n", "e", "T", "o", "(", "3", ".", "2",
      "5", "0", ",", " ", "4", ".", "0", "0", "0", ")", ";">>

\* ctx.bezierCurveTo(1.10, 2.20, 3.30, 4.40, 5.50, 6.60);
L_bezier ==
    <<"c", "t", "x", ".", "b", "e", "z", "i", "e", "r", "C", "u", "r", "v",
      "e", "T", "o", "(", "1", ".", "1", "0", ",", " ", "2", ".", "2", "0",
      ",", " ", "3", ".", "3", "0", ",", " ", "4", ".", "4", "0", ",", " ",
      "5", ".", "5", "0", ",", " ", "6", ".", "6", "0", ")", ";">>

\* ctx.moveTo(1, 2);
L_moveInt ==
    <<"c", "t", "x", ".", "m", "o", "v", "e", "T", "o", "(", "1", ",", " ",
      "2", ")", ";">>

\* ctx.lineTo(1.5, 2);
L_lineInt ==
    <<"c", "t", "x", ".", "l", "i", "n", "e", "T", "o", "(", "1", ".", "5",
      ",", " ", "2", ")", ";">>

\* ctx.bezierCurveTo(1.10, 2.20, 3, 4.40, 5.50, 6.60);
L_bezierInt ==
    <<"c", "t", "x", ".", "b", "e", "z", "i", "e", "r", "C", "u", "r", "v",
      "e", "T", "o", "(", "1", ".", "1", "0", ",", " ", "2", ".", "2", "0",
      ",", " ", "3", ",", " ", "4", ".", "4", "0", ",", " ", "5", ".", "5",
      "0", ",", " ", "6", ".", "6", "0", ")", ";">>

\* <TAB>ctx.transform(1.0, 0.0, 0.0, 1.0, -2.5, 3.0);
L_transform ==
    <<"\t", "c", "t", "x", ".", "t", "r", "a", "n", "s", "f", "o", "r", "m",
      "(", "1", ".", "0", ",", " ", "0", ".", "0", ",", " ", "0", ".", "0",
      ",", " ", "1", ".", "0", ",", " ", "-", "2", ".", "5", ",", " ", "3",
      ".", "0", ")", ";">>

\* ctx.transform( 
L_transformBare ==
    <<"c", "t", "x", ".", "t", "r", "a", "n", "s", "f", "o", "r", "m", "(",
      " ">>

\* ctx.save(); ctx.transform(1.0, 0.0, 0.0, 1.0, 0.0, 0.0);
L_transformMid ==
    <<"c", "t", "x", ".", "s", "a", "v", "e", "(", ")", ";", " ", "c", "t",
      "x", ".", "t", "r", "a", "n", "s", "f", "o", "r", "m", "(", "1", ".",
      "0", ",", " ", "0", ".", "0", ",", " ", "0", ".", "0", ",", " ", "1",
      ".", "0", ",", " ", "0", ".", "0", ",", " ", "0", ".", "0", ")", ";">>

\* ctx.beginPath();
L_junk ==
    <<"c", "t", "x", ".", "b", "e", "g", "i", "n", "P", "a", "t", "h", "(",
      ")", ";">>

\* <TAB>ctx.moveTo(-0.50, 10.0); 
L_indented ==
    <<"\t", "c", "t", "x", ".", "m", "o", "v", "e", "T", "o", "(", "-", "0",
      ".", "5", "0", ",", " ", "1", "0", ".", "0", ")", ";", " ">>

\* ctx.lineTo(3.0, 4.0);ctx.moveTo(1.0, 2.0);
L_two ==
    <<"c", "t", "x", ".", "l", "i", "n", "e", "T", "o", "(", "3", ".", "0",
      ",", " ", "4", ".", "0", ")", ";", "c", "t", "x", ".", "m", "o", "v",
      "e", "T", "o", "(", "1", ".", "0", ",", " ", "2", ".", "0", ")", ";">>

SampleLines ==
    {L_canvas24, L_canvas100, L_move, L_line, L_bezier, L_moveInt, L_lineInt,
     L_bezierInt, L_transform, L_transformBare, L_transformMid, L_junk,
     L_indented, L_two}

\* Every file of at most n sample lines.
Docs(n) == UNION {[1..k -> SampleLines] : k \in 0..n}

\* The files the converter writes in a run over several inputs.
BatchDocs ==
    {<<>>,
     <<L_canvas24, L_move, L_line>>,
     <<L_junk, L_bezier, L_indented>>,
     <<L_canvas24, L_transform, L_move>>,
     <<L_move, L_transformMid>>,
     <<L_transformBare, L_line>>}

\* The numeric strings N can capture, over a small alphabet.
NumChars == {"-", ".", "0", "1", "5"}

NumStrings ==
    {s \in UNION {[1..k -> NumChars] : k \in 1..MaxNumLen} :
        N(s, 1) = Len(s) + 1}

(***************************************************************************)
(* State.                                                                  *)
(***************************************************************************)
VARIABLES
    scope,        \* what is explored: "batch", "extract" or "clean"
    svg_files,    \* main: the inputs, by stem, in the order given
    is_file,      \* the stems whose .svg file exists
    pc,           \* the statement the run is at
    i,            \* main: index of the input the loop is at
    html,         \* the lines of the intermediate file of input i
    ln,           \* convert_to_lua_path: index of the next line
    path,         \* convert_to_lua_path: the token of the line just read
    paths,        \* convert_to_lua_path: the tokens so far
    lua_path,     \* print_lua_path: the extractor's result
    stdout,       \* the lines printed so far
    exit_status,  \* <<>> while running, <<status>> once exited
    html_files,   \* stems whose intermediate file, written by this run, exists
    calls,        \* history: the calls made, <<function, input index>>
    lua_paths,    \* history: the extractor's results, one per returned call
    error,        \* why the run aborted: "none", "missing", "converter", "transform"
    num,          \* clean_num: the captured string
    cleaned       \* clean_num: the results of cleaning num, then the result again

vars ==
    <<scope, svg_files, is_file, pc, i, html, ln, path, paths, lua_path, stdout,
      exit_status, html_files, calls, lua_paths, error, num, cleaned>>

extractor_vars == <<html, ln, path, paths, lua_path>>

input_vars == <<scope, svg_files, is_file, num, cleaned>>

\* The files the converter may write, by scope.
DocsFor(s) == IF s = "extract" THEN Docs(MaxLines) ELSE BatchDocs

Start ==
    /\ pc = "main"
    /\ i = 1
    /\ html = <<>>
    /\ ln = 1
    /\ path = ""
    /\ paths = <<>>
    /\ lua_path = ""
    /\ stdout = <<>>
    /\ exit_status = <<>>
    /\ html_files = {}
    /\ calls = <<>>
    /\ lua_paths = <<>>
    /\ error = "none"
    /\ num = <<>>
    /\ cleaned = <<>>

\* A run over up to MaxFiles inputs.
Init ==
    /\ scope = "batch"
    /\ svg_files \in UNION {[1..n -> Stems] : n \in 0..MaxFiles}
    /\ is_file \in SUBSET Stems
    /\ Start

\* A run over one input, the converter writing any file of Docs(MaxLines).
InitExtract ==
    /\ scope = "extract"
    /\ svg_files = <<"a">>
    /\ is_file \in SUBSET {"a"}
    /\ Start

(***************************************************************************)
(* main and print_lua_path.                                                *)
(***************************************************************************)
\* sys.exit(1), or an uncaught exception
Exit(status) ==
    /\ pc' = "exit"
    /\ exit_status' = <<status>>

\* print("local icons = {")
PrintHeader ==
    /\ pc = "main"
    /\ stdout' = Append(stdout, Header)
    /\ pc' = "for"
    /\ UNCHANGED <<i, exit_status, html_files, calls, lua_paths, error>>
    /\ UNCHANGED <<extractor_vars, input_vars>>

\* Mutant of NoSuchFileExit: the diagnostic is printed and the loop goes on.
NoSuchFileExit_Continue ==
    /\ pc = "for"
    /\ i <= Len(svg_files)
    /\ svg_files[i] \notin is_file
    /\ calls' = Append(calls, <<"is_file", i>>)
    /\ stdout' = Append(stdout, NoSuchFile(svg_files[i]))
    /\ i' = i + 1
    /\ UNCHANGED <<pc, exit_status, html_files, lua_paths, error>>
    /\ UNCHANGED <<extractor_vars, input_vars>>

\* print_lua_path: svg_file is not a file
NoSuchFileExit ==
    /\ pc = "for"
    /\ i <= Len(svg_files)
    /\ svg_files[i] \notin is_file
    /\ calls' = Append(calls, <<"is_file", i>>)
    /\ stdout' = Append(stdout, NoSuchFile(svg_files[i]))
    /\ error' = "missing"
    /\ Exit(1)
    /\ UNCHANGED <<i, html_files, lua_paths>>
    /\ UNCHANGED <<extractor_vars, input_vars>>

\* print_lua_path: the file exists; convert_to_html_file, inkscape exits 0
ConvertToHtmlFile ==
    /\ pc = "for"
    /\ i <= Len(svg_files)
    /\ svg_files[i] \in is_file
    /\ \E doc \in DocsFor(scope) : html' = doc
    /\ html_files' = html_files \cup {svg_files[i]}
    /\ calls' = calls \o <<<<"is_file", i>>, <<"convert_to_html_file", i>>>>
    /\ pc' = "convert_to_lua_path"
    /\ UNCHANGED <<i, ln, path, paths, lua_path, stdout, exit_status, lua_paths,
                   error>>
    /\ UNCHANGED input_vars

\* Mutant of ConvertToHtmlFileFails: the exit status of inkscape is not
\* checked, and the extractor reads whatever file there is.
ConvertToHtmlFileFails_Unchecked ==
    /\ pc = "for"
    /\ i <= Len(svg_files)
    /\ svg_files[i] \in is_file
    /\ html' = <<>>
    /\ html_files' = html_files \cup {svg_files[i]}
    /\ calls' = calls \o <<<<"is_file", i>>, <<"convert_to_html_file", i>>>>
    /\ error' = "converter"
    /\ pc' = "convert_to_lua_path"
    /\ UNCHANGED <<i, ln, path, paths, lua_path, stdout, exit_status, lua_paths>>
    /\ UNCHANGED input_vars

\* print_lua_path: the file exists; inkscape exits non-zero and check=True
\* raises CalledProcessError, which nothing catches.  The converter may or may
\* not have written its output file before failing.
ConvertToHtmlFileFails ==
    /\ pc = "for"
    /\ i <= Len(svg_files)
    /\ svg_files[i] \in is_file
    /\ \E written \in BOOLEAN :
          html_files' = IF written THEN html_files \cup {svg_files[i]}
                        ELSE html_files
    /\ calls' = calls \o <<<<"is_file", i>>, <<"convert_to_html_file", i>>>>
    /\ error' = "converter"
    /\ Exit(1)
    /\ UNCHANGED <<i, stdout, lua_paths>>
    /\ UNCHANGED <<extractor_vars, input_vars>>

(***************************************************************************)
(* convert_to_lua_path.                                                    *)
(***************************************************************************)
\* paths = []; open the file
ExtractBegin ==
    /\ pc = "convert_to_lua_path"
    /\ calls' = Append(calls, <<"convert_to_lua_path", i>>)
    /\ paths' = <<>>
    /\ ln' = 1
    /\ pc' = "line"
    /\ UNCHANGED <<i, html, path, lua_path, stdout, exit_status, html_files,
                   lua_paths, error>>
    /\ UNCHANGED input_vars

\* Mutant of ExtractLine: a transform line is reported and then skipped.
ExtractLine_NoExit ==
    /\ pc = "line"
    /\ ln <= Len(html)
    /\ LET line == strip(html[ln])
       IN  /\ stdout' = IF TRANSFORM(line).matched
                        THEN stdout \o <<CannotParse(svg_files[i]), Ungroup>>
                        ELSE stdout
           /\ path' = PathOf(line)
           /\ paths' = IF PathOf(line) # ""
                       THEN Append(paths, PathOf(line))
                       ELSE paths
    /\ ln' = ln + 1
    /\ UNCHANGED <<pc, i, html, lua_path, exit_status, html_files, calls,
                   lua_paths, error>>
    /\ UNCHANGED input_vars

\* one iteration of `for line in f`
ExtractLine ==
    /\ pc = "line"
    /\ ln <= Len(html)
    /\ LET line == strip(html[ln])
       IN  IF TRANSFORM(line).matched
           THEN /\ stdout' = stdout \o <<CannotParse(svg_files[i]), Ungroup>>
                /\ error' = "transform"
                /\ Exit(1)
                /\ path' = CanvasPathOf(line)
                /\ UNCHANGED <<ln, paths>>
           ELSE /\ path' = PathOf(line)
                /\ paths' = IF PathOf(line) # ""
                            THEN Append(paths, PathOf(line))
                            ELSE paths
                /\ ln' = ln + 1
                /\ UNCHANGED <<pc, stdout, exit_status, error>>
    /\ UNCHANGED <<i, html, lua_path, html_files, calls, lua_paths>>
    /\ UNCHANGED input_vars

\* lua_path = str(" ".join(paths)); return lua_path
ExtractReturn ==
    /\ pc = "line"
    /\ ln > Len(html)
    /\ lua_path' = join(" ", paths)
    /\ lua_paths' = Append(lua_paths, join(" ", paths))
    /\ pc' = "print"
    /\ UNCHANGED <<i, html, ln, path, paths, stdout, exit_status, html_files,
                   calls, error>>
    /\ UNCHANGED input_vars

\* Mutant of PrintDataLine: the line is put in front of what was printed.
PrintDataLine_First ==
    /\ pc = "print"
    /\ stdout' = <<DataLine(svg_files[i], lua_path)>> \o stdout
    /\ pc' = "unlink"
    /\ UNCHANGED <<i, exit_status, html_files, calls, lua_paths, error>>
    /\ UNCHANGED <<extractor_vars, input_vars>>

\* print(rf'    {name} = "{{\\p1}}{lua_path}{{\\p0}}",')
PrintDataLine ==
    /\ pc = "print"
    /\ stdout' = Append(stdout, DataLine(svg_files[i], lua_path))
    /\ pc' = "unlink"
    /\ UNCHANGED <<i, exit_status, html_files, calls, lua_paths, error>>
    /\ UNCHANGED <<extractor_vars, input_vars>>

\* Mutant of Unlink: the intermediate file is not removed.
Unlink_Keep ==
    /\ pc = "unlink"
    /\ html' = <<>>
    /\ calls' = Append(calls, <<"unlink", i>>)
    /\ i' = i + 1
    /\ pc' = "for"
    /\ UNCHANGED <<ln, path, paths, lua_path, stdout, exit_status, html_files,
                   lua_paths, error>>
    /\ UNCHANGED input_vars

\* html_file.unlink(); the loop goes on to the next input
Unlink ==
    /\ pc = "unlink"
    /\ html_files' = html_files \ {svg_files[i]}
    /\ html' = <<>>
    /\ calls' = Append(calls, <<"unlink", i>>)
    /\ i' = i + 1
    /\ pc' = "for"
    /\ UNCHANGED <<ln, path, paths, lua_path, stdout, exit_status, lua_paths,
                   error>>
    /\ UNCHANGED input_vars

\* print("}"); the interpreter exits with status 0
PrintFooter ==
    /\ pc = "for"
    /\ i > Len(svg_files)
    /\ stdout' = Append(stdout, Footer)
    /\ Exit(0)
    /\ UNCHANGED <<i, html_files, calls, lua_paths, error>>
    /\ UNCHANGED <<extractor_vars, input_vars>>

Next ==
    \/ PrintHeader
    \/ NoSuchFileExit
    \/ ConvertToHtmlFile
    \/ ConvertToHtmlFileFails
    \/ ExtractBegin
    \/ ExtractLine
    \/ ExtractReturn
    \/ PrintDataLine
    \/ Unlink
    \/ PrintFooter

Spec == Init /\ [][Next]_vars

SpecExtract == InitExtract /\ [][Next]_vars

(***************************************************************************)
(* clean_num on its own: the captured string is cleaned, and the result is *)
(* cleaned once more.                                                      *)
(***************************************************************************)
InitClean ==
    /\ scope = "clean"
    /\ svg_files = <<>>
    /\ is_file = {}
    /\ pc = "clean_num"
    /\ i = 1
    /\ html = <<>>
    /\ ln = 1
    /\ path = ""
    /\ paths = <<>>
    /\ lua_path = ""
    /\ stdout = <<>>
    /\ exit_status = <<>>
    /\ html_files = {}
    /\ calls = <<>>
    /\ lua_paths = <<>>
    /\ error = "none"
    /\ num \in NumStrings
    /\ cleaned = <<>>

CleanNum ==
    /\ pc = "clean_num"
    /\ Len(cleaned) < 2
    /\ cleaned' = Append(cleaned,
                         clean_num(IF cleaned = <<>> THEN num
                                   ELSE cleaned[Len(cleaned)]))
    /\ UNCHANGED <<scope, svg_files, is_file, pc, i, html, ln, path, paths, lua_path,
                   stdout, exit_status, html_files, calls, lua_paths, error, num>>

SpecClean == InitClean /\ [][CleanNum]_vars

(***************************************************************************)
(* Claims about clean_num (checked under SpecClean).                       *)
(***************************************************************************)
HasDot(s) == \E k \in 1..Len(s) : s[k] = "."

RECURSIVE TrimFraction(_)
\* A string with a decimal point, without the trailing zeros of its fractional
\* part and then without a trailing point.
TrimFraction(s) ==
    IF s[Len(s)] = "0" THEN TrimFraction(SubSeq(s, 1, Len(s) - 1))
    ELSE IF s[Len(s)] = "." THEN SubSeq(s, 1, Len(s) - 1)
    ELSE s

\* The cleaned form that keeps the value: unchanged without a decimal point.
ValueKept(s) == IF HasDot(s) THEN TrimFraction(s) ELSE s

\* C1: clean_num never changes the numeric value: a captured string without a
\* decimal point is returned unchanged, and one with a decimal point loses the
\* trailing zeros of its fractional part and then a trailing point.
C1_CleanKeepsValue ==
    cleaned # <<>> =>
        cleaned[1] = ValueKept(num)

\* C2: cleaning is idempotent: clean_num(clean_num(s)) = clean_num(s) for
\* every valid decimal string s.
C2_CleanIdempotent ==
    Len(cleaned) = 2 => cleaned[2] = cleaned[1]

(***************************************************************************)
(* Claims about a run over a batch (checked under Spec).                   *)
(***************************************************************************)
\* The data lines of the first n inputs, in input order.
DataLines(n) == [k \in 1..n |-> DataLine(svg_files[k], lua_paths[k])]

Called(fn, k) == \E n \in 1..Len(calls) : calls[n] = <<fn, k>>

\* The line, trimmed, starts with ctx.transform( and goes on.
StartsWithTransform(l) ==
    LET s == strip(l)
    IN  /\ Len(s) > Len(TRANSFORM_OPEN)
        /\ SubSeq(s, 1, Len(TRANSFORM_OPEN)) = TRANSFORM_OPEN

\* The line contains the text ctx.transform( somewhere.
ContainsTransform(l) ==
    \E p \in 1..Len(l) :
        /\ p + Len(TRANSFORM_OPEN) - 1 <= Len(l)
        /\ SubSeq(l, p, p + Len(TRANSFORM_OPEN) - 1) = TRANSFORM_OPEN

\* Given the indices of the transform lines of the intermediate file of input
\* i: the extractor never gets past the first of them, and the run ends there
\* with status 1, the file kept, no data line for input i and no later input
\* touched.
AbortsAtTransform(at) ==
    at # {} =>
        /\ pc \in {"convert_to_lua_path", "line", "exit"}
        /\ pc = "line" => \A n \in at : ln <= n
        /\ pc = "exit" =>
              /\ exit_status = <<1>>
              /\ svg_files[i] \in html_files
              /\ ~Called("unlink", i)
              /\ \A n \in 1..Len(calls) : calls[n][2] <= i
              /\ Len(lua_paths) = i - 1
              /\ stdout = <<Header>> \o DataLines(i - 1)
                            \o <<CannotParse(svg_files[i]), Ungroup>>

\* C3 (as amended): if a line of the intermediate file, trimmed, starts with
\* ctx.transform( followed by at least one character, the run ends with a
\* non-zero status, the intermediate file is kept, no data line is printed for
\* that file and no later file is processed.
C3_TransformAborts ==
    AbortsAtTransform({n \in 1..Len(html) : StartsWithTransform(html[n])})

\* C3 (as stated): the same for every line that contains ctx.transform(
\* anywhere, whatever follows it.
C3_AnyTransformTextAborts ==
    AbortsAtTransform({n \in 1..Len(html) : ContainsTransform(html[n])})

C3_Witness ==
    /\ pc = "exit"
    /\ error = "transform"
    /\ i = 2
    /\ Len(svg_files) = 3
    /\ \E n \in 1..Len(html) : StartsWithTransform(html[n])

AllExist == \A k \in 1..Len(svg_files) : svg_files[k] \in is_file

\* C4: when every input exists, the converter succeeds and no transform line
\* occurs, the output is the header, one data line per input in input order
\* (the k-th naming the k-th stem) and the footer, nothing else, and the
\* status is 0; until then the output is the header and the data lines of the
\* inputs done so far.
C4_BatchOutput ==
    /\ stdout # <<>> => stdout[1] = Header
    /\ (error = "none" /\ pc \notin {"main", "exit"}) =>
          stdout = <<Header>> \o DataLines(IF pc = "unlink" THEN i ELSE i - 1)
    /\ (pc = "exit" /\ AllExist /\ error \notin {"converter", "transform"}) =>
          /\ exit_status = <<0>>
          /\ Len(lua_paths) = Len(svg_files)
          /\ stdout = <<Header>> \o DataLines(Len(svg_files)) \o <<Footer>>

C4_Witness ==
    /\ pc = "exit"
    /\ exit_status = <<0>>
    /\ Len(svg_files) = 3
    /\ svg_files[1] # svg_files[2]
    /\ lua_paths[1] # lua_paths[2]

\* The outputs in which no data line stands for input k or a later one: the
\* header, data lines of inputs before k, and at most one diagnostic.
BeforeInput(k) ==
    {<<Header>> \o DataLines(j) \o tail :
        j \in 0..(IF k - 1 < Len(lua_paths) THEN k - 1 ELSE Len(lua_paths)),
        tail \in {<<>>, <<NoSuchFile(svg_files[i])>>,
                  <<CannotParse(svg_files[i]), Ungroup>>}}

\* C5: if the k-th input does not exist, the converter is never invoked for
\* input k or a later one, no data line is printed for them, the footer is
\* never printed and the run ends with a non-zero status; it aborts at the
\* first such input, after the header and the data lines of the inputs before
\* it.
C5_MissingFileAborts ==
    \A k \in 1..Len(svg_files) :
        svg_files[k] \notin is_file =>
            /\ \A n \in 1..Len(calls) :
                  calls[n][1] # "is_file" => calls[n][2] < k
            /\ i <= k
            /\ stdout # <<>> => stdout \in BeforeInput(k)
            /\ pc = "exit" => exit_status = <<1>>
            /\ (pc = "exit" /\ i = k) =>
                  /\ error = "missing"
                  /\ stdout = <<Header>> \o DataLines(k - 1)
                                \o <<NoSuchFile(svg_files[k])>>

C5_Witness ==
    /\ pc = "exit"
    /\ error = "missing"
    /\ i = 2
    /\ Len(svg_files) = 3
    /\ stdout = <<Header, DataLine(svg_files[1], lua_paths[1]),
                  NoSuchFile(svg_files[2])>>

\* C7: if the converter exits non-zero for the k-th input, the run ends with
\* a non-zero status, the extractor is not run for input k, no data line is
\* printed for it, no later input is checked, converted or printed, and the
\* footer is never printed.
C7_ConverterFailureAborts ==
    error = "converter" =>
        /\ pc = "exit"
        /\ exit_status = <<1>>
        /\ calls[Len(calls)] = <<"convert_to_html_file", i>>
        /\ ~Called("convert_to_lua_path", i)
        /\ \A n \in 1..Len(calls) : calls[n][2] <= i
        /\ Len(lua_paths) = i - 1
        /\ stdout = <<Header>> \o DataLines(i - 1)

C7_Witness ==
    /\ error = "converter"
    /\ pc = "exit"
    /\ i = 2
    /\ Len(svg_files) = 3
    /\ Len(stdout) = 2

\* C10: the intermediate file of input k is written, read and deleted before
\* the converter is invoked for input k+1, so at most one intermediate file of
\* the run exists at any time; none remains when the run exits with status 0,
\* and one remains only after an abort (transform, or converter failure).
C10_IntermediateLifecycle ==
    /\ Cardinality(html_files) <= 1
    /\ pc = "for" => html_files = {}
    /\ html_files # {} => (i <= Len(svg_files) /\ html_files = {svg_files[i]})
    /\ \A n \in 1..Len(calls) :
          (calls[n][1] = "convert_to_html_file" /\ calls[n][2] > 1) =>
              \E m \in 1..(n - 1) : calls[m] = <<"unlink", calls[n][2] - 1>>
    /\ \A n \in 1..Len(calls) :
          calls[n][1] = "unlink" =>
              \E m \in 1..(n - 1) : calls[m] = <<"convert_to_lua_path", calls[n][2]>>
    /\ (pc = "exit" /\ exit_status = <<0>>) => html_files = {}
    /\ (pc = "exit" /\ html_files # {}) =>
          /\ error \in {"transform", "converter"}
          /\ exit_status = <<1>>

C10_Witness ==
    /\ pc = "unlink"
    /\ i = 2
    /\ svg_files[1] # svg_files[2]
    /\ html_files = {svg_files[2]}
    /\ Called("unlink", 1)

(***************************************************************************)
(* Claims about the extractor (checked under SpecExtract).                 *)
(***************************************************************************)
\* The text of a canvas declaration of width w and height h.
CanvasLine(w, h) == CANVAS_OPEN \o w \o CANVAS_MID \o h \o CANVAS_CLOSE

\* The widths and heights of the sample canvas declarations.
CanvasNums == {<<"2", "4">>, <<"1", "0", "0">>, <<"3", "7", ".", "5", "0">>}

\* The extractor returned for a file whose line n declares a w by h canvas.
CanvasAt(n, w, h) ==
    /\ pc = "print"
    /\ n \in 1..Len(html)
    /\ strip(html[n]) = CanvasLine(w, h)
    /\ \A m \in 1..Len(html) : ~StartsWithTransform(html[m])

Patterns(line) ==
    <<CANVAS(line), TRANSFORM(line), MOVE_TO(line), LINE_TO(line),
      BEZIER_CURVE_TO(line)>>

\* The token of a trimmed line: that of the first pattern, in the order
\* above, that matches; none ("") when no token pattern matches.
TokenByPriority(line) ==
    IF CANVAS(line).matched THEN CanvasPath(Cleaned(CANVAS(line).groups))
    ELSE IF MOVE_TO(line).matched THEN MovePath(Cleaned(MOVE_TO(line).groups))
    ELSE IF LINE_TO(line).matched THEN LinePath(Cleaned(LINE_TO(line).groups))
    ELSE IF BEZIER_CURVE_TO(line).matched
         THEN BezierPath(Cleaned(BEZIER_CURVE_TO(line).groups))
    ELSE ""

RECURSIVE TokensOf(_)
\* The tokens of the lines that have one, in line order.
TokensOf(lines) ==
    IF lines = <<>> THEN <<>>
    ELSE LET t == TokenByPriority(strip(lines[Len(lines)]))
             before == TokensOf(SubSeq(lines, 1, Len(lines) - 1))
         IN  IF t = "" THEN before ELSE Append(before, t)

RECURSIVE SpaceSeparated(_)
\* The tokens with one space between neighbours.
SpaceSeparated(ts) ==
    IF ts = <<>> THEN ""
    ELSE IF Len(ts) = 1 THEN ts[1]
    ELSE SpaceSeparated(SubSeq(ts, 1, Len(ts) - 1)) \o " " \o ts[Len(ts)]

\* C8: no line matches two of the five patterns; every line read adds exactly
\* one token when it matches a token pattern, aborts when it matches the
\* transform pattern and adds nothing otherwise; the result is the tokens of
\* the matching lines, in line order, joined by single spaces.
C8_OneOutcomePerLine ==
    /\ \A n \in 1..Len(html) :
          Cardinality({p \in 1..5 : Patterns(strip(html[n]))[p].matched}) <= 1
    /\ pc = "line" => paths = TokensOf(SubSeq(html, 1, ln - 1))
    /\ (pc = "exit" /\ error = "transform") =>
          /\ TRANSFORM(strip(html[ln])).matched
          /\ paths = TokensOf(SubSeq(html, 1, ln - 1))
    /\ pc = "print" =>
          /\ \A n \in 1..Len(html) : ~TRANSFORM(strip(html[n])).matched
          /\ paths = TokensOf(html)
          /\ lua_path = SpaceSeparated(TokensOf(html))
    /\ (pc = "print" /\ html = <<L_move, L_line>>) =>
          lua_path = "m 1.5 2 l 3.25 4"

C8_Witness ==
    /\ pc = "print"
    /\ html = <<L_move, L_line>>
    /\ lua_path = "m 1.5 2 l 3.25 4"

\* The move-to, line-to and bezier lines with a bare-integer coordinate.
IntCoordLines == {L_moveInt, L_lineInt, L_bezierInt}

\* The coordinates a draw-call pattern captured from a trimmed line.
Coordinates(line) ==
    MOVE_TO(line).groups \o LINE_TO(line).groups
        \o BEZIER_CURVE_TO(line).groups

\* C9: a move-to, line-to or bezier line yields a token only when every
\* coordinate has a decimal point; one with a bare-integer coordinate matches
\* nothing, adds no token and raises no error; the canvas declaration accepts
\* bare integers.
C9_DrawCallsNeedDecimals ==
    (pc = "line" /\ ln > 1) =>
        LET line == strip(html[ln - 1])
        IN  /\ line \in IntCoordLines =>
                  /\ path = ""
                  /\ \A p \in 1..5 : ~Patterns(line)[p].matched
                  /\ error = "none"
                  /\ paths = TokensOf(SubSeq(html, 1, ln - 2))
            /\ (path # "" /\ ~CANVAS(line).matched) =>
                  /\ Coordinates(line) # <<>>
                  /\ \A k \in 1..Len(Coordinates(line)) :
                        HasDot(Coordinates(line)[k])
            /\ line = L_canvas24 => path = "m 0 0 m 24 24"

C9_Witness ==
    /\ pc = "line"
    /\ ln = 3
    /\ html = <<L_canvas24, L_lineInt>>
    /\ path = ""
    /\ paths = <<"m 0 0 m 24 24">>

=============================================================================
